---- MODULE Spec2Model ----
(***************************************************************************)
(* Model of lab7.cpp: VectorRam<T> with its sequential Sum and its         *)
(* fork-join parallel Sum (one std::thread per block, local accumulation,  *)
(* mutex-guarded merge into a shared total, join of all threads).          *)
(*                                                                         *)
(* size_t is modelled as an unsigned integer of SizeBits bits and the      *)
(* element type T as an unsigned integer of TBits bits, both with          *)
(* wrap-around arithmetic.  A read of data[i] with i >= size is undefined  *)
(* behaviour: it either faults (the process is killed) or yields an        *)
(* indeterminate value; Indet stands for such a value, and any sum that    *)
(* contains it is indeterminate as well.                                   *)
(***************************************************************************)
EXTENDS Integers, Sequences, FiniteSets, TLC

\* ------------------------------------------------------------- bounds
SizeBits == 4
TBits == 4
MaxSize == 3
MaxThreads == 2
MaxVal == 2

SizeMod == 2 ^ SizeBits
SIZE_MAX == SizeMod - 1
TMod == 2 ^ TBits

\* An indeterminate value of type T (the result of an out-of-bounds read).
Indet == 0 - 1

\* ------------------------------------------------------------- state
VARIABLES
    data,        \* VectorRam::data, a function 0..size-1 -> T
    size,        \* VectorRam::size
    pc,          \* the calling thread: "idle", "dispatch", "join", "done", "crashed",
                 \* "spinning" (in a loop that cannot end), "unconstructed"
    op,          \* the operation of the current or last call: "none", "seq", "par"
    indStart,    \* argument indStart of the call
    indEnd,      \* argument indEnd of the call
    threadsNum,  \* argument threadsNum of the call
    sum,         \* the shared total of the parallel Sum (T sum)
    m,           \* std::mutex m: 0 when free, else the index of the thread that holds it
    thBlockSize, \* local thBlockSize of the parallel Sum
    threads,     \* std::vector<std::thread>: the state of every spawned thread_sum
    joined,      \* number of threads the caller has joined
    result,      \* the value the call returned
    prev         \* history: the value returned by the previous call when it had the
                 \* same operation and arguments on the same buffer, else NoPrev

vars == << data, size, pc, op, indStart, indEnd, threadsNum, sum, m,
           thBlockSize, threads, joined, result, prev >>

NoPrev == 0 - 2

\* ------------------------------------------------------------- arithmetic
\* size_t arithmetic wraps modulo 2^SizeBits.
SzAdd(a, b) == (a + b) % SizeMod
SzSub(a, b) == (a - b + SizeMod) % SizeMod
SzMul(a, b) == (a * b) % SizeMod

\* T += on an unsigned T; an indeterminate operand makes the sum indeterminate.
TAdd(a, b) == IF a = Indet \/ b = Indet THEN Indet ELSE (a + b) % TMod

\* data[i]: the element when i is inside the allocation.
InBounds(i) == i < size

\* ------------------------------------------------------------- buffers
\* The buffer after InitByVal(val): every element equals val.
Filled(n, val) == [j \in 0 .. (n - 1) |-> val]

\* A buffer whose elements differ (written through the public data pointer).
Ramp(n) == [j \in 0 .. (n - 1) |-> (j + 1) % (MaxVal + 1)]

Buffers(n) == { Filled(n, v) : v \in 1 .. MaxVal } \cup { Ramp(n) }

\* ------------------------------------------------------------- sequential Sum
\* The loop of Sum(indStart, indEnd): for (i = indStart; i <= indEnd; i++) result += data[i].
RECURSIVE SumLoop(_, _, _, _, _)
SumLoop(d, n, i, e, acc) ==
    IF i > e THEN acc
    ELSE SumLoop(d, n, SzAdd(i, 1), e, TAdd(acc, IF i < n THEN d[i] ELSE Indet))

\* T Sum(size_t indStart, size_t indEnd)
SeqSum(d, n, s, e) == SumLoop(d, n, s, e, 0)

\* Some index of the loop lies outside the allocation.
SeqReadsOutside(n, s, e) == s <= e /\ e >= n

\* ------------------------------------------------------------- calls
\* The previous call returned and had the same operation and arguments.
SameCall(o, s, e, n) ==
    /\ pc = "done"
    /\ op = o
    /\ indStart = s
    /\ indEnd = e
    /\ threadsNum = n

Callable == pc \in {"idle", "done"}

ValidRange(s, e) == s <= e /\ e < size

\* The state of a call before its first statement.
Enter(o, s, e, n) ==
    /\ Callable
    /\ prev' = IF SameCall(o, s, e, n) THEN result ELSE NoPrev
    /\ op' = o
    /\ indStart' = s
    /\ indEnd' = e
    /\ threadsNum' = n
    /\ UNCHANGED << data, size >>

\* The loop i <= indEnd ends: with indEnd = SIZE_MAX the condition is always true.
SeqTerminates(s, e) == s > e \/ e < SIZE_MAX

\* Sum(indStart, indEnd) run to completion by the calling thread: it returns, or
\* faults on a read outside the allocation, or never leaves its loop.
DoSeqSum(s, e) ==
    /\ Enter("seq", s, e, 0)
    /\ \/ /\ SeqTerminates(s, e)
          /\ pc' = "done"
          /\ result' = SeqSum(data, size, s, e)
       \/ /\ SeqReadsOutside(size, s, e)
          /\ pc' = "crashed"
          /\ result' = 0
       \/ /\ ~SeqTerminates(s, e)
          /\ pc' = "spinning"
          /\ result' = 0
    /\ sum' = 0
    /\ m' = 0
    /\ thBlockSize' = 0
    /\ threads' = << >>
    /\ joined' = 0

SumRange == \E s \in 0 .. (size - 1) : \E e \in s .. (size - 1) : DoSeqSum(s, e)

\* T Sum(): the full range.
SumAll == DoSeqSum(0, SzSub(size, 1))

\* size_t blockSize = indEnd - indStart + 1
BlockSize(s, e) == SzAdd(SzSub(e, s), 1)

\* A shared total that is not initialised: it keeps what the last call left.
SumInitStale == sum

\* T sum = 0
SumInit == 0

\* The declarations of Sum(indStart, indEnd, threadsNum) up to the dispatch loop.
\* blockSize / threadsNum with threadsNum = 0 is undefined: the division traps
\* or leaves any value in thBlockSize.
DoParSum(s, e, n) ==
    /\ Enter("par", s, e, n)
    /\ m' = 0
    /\ sum' = SumInit
    /\ threads' = << >>
    /\ joined' = 0
    /\ result' = 0
    /\ IF n = 0
       THEN \/ /\ pc' = "crashed"
               /\ thBlockSize' = 0
            \/ /\ pc' = "join"
               /\ thBlockSize' \in 0 .. SIZE_MAX
       ELSE /\ pc' = "dispatch"
            /\ thBlockSize' = BlockSize(s, e) \div n

SumRangeThreads ==
    \E s \in 0 .. (size - 1) : \E e \in s .. (size - 1) : \E n \in 0 .. MaxThreads :
        DoParSum(s, e, n)

\* T Sum(unsigned threadsNum): the full range.
SumThreads == \E n \in 0 .. MaxThreads : DoParSum(0, SzSub(size, 1), n)

\* void InitByVal(T val)
InitByVal ==
    /\ Callable
    /\ \E val \in 1 .. MaxVal : data' = Filled(size, val)
    /\ pc' = "idle"
    /\ op' = "none"
    /\ prev' = NoPrev
    /\ UNCHANGED << size, indStart, indEnd, threadsNum, sum, m, thBlockSize,
                    threads, joined, result >>

\* ------------------------------------------------------------- dispatch
\* The block of thread i of n over [s, e] with block size b:
\* thIndStart = indStart + i * thBlockSize
BlockStart(s, b, i) == SzAdd(s, SzMul(i, b))

\* thIndEnd = thIndStart + thBlockSize - 1; if (i == threadsNum - 1) thIndEnd = indEnd
BlockEnd(s, e, b, n, i) ==
    IF i = n - 1 THEN e ELSE SzSub(SzAdd(BlockStart(s, b, i), b), 1)

\* size_t thIndStart = indStart + i * thBlockSize
ThIndStart(i) == SzAdd(indStart, SzMul(i, thBlockSize))

\* The block end without the correction for the last thread.
ThIndEndNoLast(i) == SzSub(SzAdd(ThIndStart(i), thBlockSize), 1)

\* size_t thIndEnd = thIndStart + thBlockSize - 1; the last thread gets indEnd.
ThIndEnd(i) ==
    IF i = threadsNum - 1 THEN indEnd
    ELSE SzSub(SzAdd(ThIndStart(i), thBlockSize), 1)

\* A thread_sum just started: T local_sum = 0, i = indStart.  tmp is the value of
\* sum read by sum += local_sum; merges counts the additions to the shared total
\* and iterated tells whether the loop body has run (both history).
NewThread(s, e) ==
    [ indStart |-> s, indEnd |-> e, i |-> s, local_sum |-> 0, pc |-> "loop",
      tmp |-> 0, merges |-> 0, iterated |-> FALSE ]

\* A dispatch loop that stops after its first thread.
SpawnOnce ==
    /\ pc = "dispatch"
    /\ Len(threads) < threadsNum
    /\ LET i == Len(threads)
       IN  threads' = Append(threads, NewThread(ThIndStart(i), ThIndEnd(i)))
    /\ pc' = "join"
    /\ UNCHANGED << data, size, op, indStart, indEnd, threadsNum, sum, m,
                    thBlockSize, joined, result, prev >>

\* One iteration of the dispatch loop: compute the block and start its thread.
Spawn ==
    /\ pc = "dispatch"
    /\ Len(threads) < threadsNum
    /\ LET i == Len(threads)
       IN  threads' = Append(threads, NewThread(ThIndStart(i), ThIndEnd(i)))
    /\ pc' = IF Len(threads) + 1 = threadsNum THEN "join" ELSE "dispatch"
    /\ UNCHANGED << data, size, op, indStart, indEnd, threadsNum, sum, m,
                    thBlockSize, joined, result, prev >>

\* ------------------------------------------------------------- thread_sum
Running == pc \in {"dispatch", "join"}

ThreadIds == 1 .. Len(threads)

SetThread(k, t) == threads' = [threads EXCEPT ![k] = t]

\* An iteration that accumulates in place: data[i] = (local_sum += data[i]).
IterateInPlace(k) ==
    /\ Running
    /\ threads[k].pc = "loop"
    /\ threads[k].i <= threads[k].indEnd
    /\ InBounds(threads[k].i)
    /\ LET t == threads[k]
           s == TAdd(t.local_sum, data[t.i])
       IN  /\ data' = [data EXCEPT ![t.i] = s]
           /\ SetThread(k, [t EXCEPT !.i = SzAdd(t.i, 1), !.iterated = TRUE,
                                     !.local_sum = s])
    /\ UNCHANGED << size, pc, op, indStart, indEnd, threadsNum, sum, m,
                    thBlockSize, joined, result, prev >>

\* One iteration of the loop: local_sum += data[i]; i++.  Outside the
\* allocation the read faults or yields an indeterminate value.
Iterate(k) ==
    /\ Running
    /\ threads[k].pc = "loop"
    /\ threads[k].i <= threads[k].indEnd
    /\ LET t == threads[k]
           next == [t EXCEPT !.i = SzAdd(t.i, 1), !.iterated = TRUE]
       IN  \/ /\ InBounds(t.i)
              /\ SetThread(k, [next EXCEPT !.local_sum = TAdd(t.local_sum, data[t.i])])
              /\ pc' = pc
           \/ /\ ~InBounds(t.i)
              /\ SetThread(k, [next EXCEPT !.local_sum = Indet])
              /\ pc' = pc
           \/ /\ ~InBounds(t.i)
              /\ threads' = threads
              /\ pc' = "crashed"
    /\ UNCHANGED << data, size, op, indStart, indEnd, threadsNum, sum, m,
                    thBlockSize, joined, result, prev >>

\* The loop condition i <= indEnd fails: the loop is left.
LeaveLoop(k) ==
    /\ Running
    /\ threads[k].pc = "loop"
    /\ threads[k].i > threads[k].indEnd
    /\ SetThread(k, [threads[k] EXCEPT !.pc = "lock"])
    /\ UNCHANGED << data, size, pc, op, indStart, indEnd, threadsNum, sum, m,
                    thBlockSize, joined, result, prev >>

\* A lock that never blocks.
MutexIgnored(k) == TRUE

\* std::lock_guard<std::mutex> lock(m): blocks until the mutex is free.
MutexFree(k) == m = 0

Lock(k) ==
    /\ Running
    /\ threads[k].pc = "lock"
    /\ MutexFree(k)
    /\ m' = k
    /\ SetThread(k, [threads[k] EXCEPT !.pc = "load"])
    /\ UNCHANGED << data, size, pc, op, indStart, indEnd, threadsNum, sum,
                    thBlockSize, joined, result, prev >>

\* sum += local_sum, first half: read the shared total.
Load(k) ==
    /\ Running
    /\ threads[k].pc = "load"
    /\ SetThread(k, [threads[k] EXCEPT !.pc = "store", !.tmp = sum])
    /\ UNCHANGED << data, size, pc, op, indStart, indEnd, threadsNum, sum, m,
                    thBlockSize, joined, result, prev >>

\* sum += local_sum, second half: write the shared total.
Store(k) ==
    /\ Running
    /\ threads[k].pc = "store"
    /\ sum' = TAdd(threads[k].tmp, threads[k].local_sum)
    /\ SetThread(k, [threads[k] EXCEPT !.pc = "unlock", !.tmp = 0,
                                       !.merges = threads[k].merges + 1])
    /\ UNCHANGED << data, size, pc, op, indStart, indEnd, threadsNum, m,
                    thBlockSize, joined, result, prev >>

\* A thread_sum that returns without releasing the mutex.
UnlockForgotten(k) ==
    /\ Running
    /\ threads[k].pc = "unlock"
    /\ SetThread(k, [threads[k] EXCEPT !.pc = "done"])
    /\ UNCHANGED << data, size, pc, op, indStart, indEnd, threadsNum, sum, m,
                    thBlockSize, joined, result, prev >>

\* The lock_guard goes out of scope and thread_sum returns.
Unlock(k) ==
    /\ Running
    /\ threads[k].pc = "unlock"
    /\ m' = IF m = k THEN 0 ELSE m
    /\ SetThread(k, [threads[k] EXCEPT !.pc = "done"])
    /\ UNCHANGED << data, size, pc, op, indStart, indEnd, threadsNum, sum,
                    thBlockSize, joined, result, prev >>

\* One step of thread k.
ThreadStepOf(k) ==
    \/ Iterate(k)
    \/ LeaveLoop(k)
    \/ Lock(k)
    \/ Load(k)
    \/ Store(k)
    \/ Unlock(k)

ThreadStep == \E k \in ThreadIds : ThreadStepOf(k)

\* ------------------------------------------------------------- join and return
\* A join that does not wait.
JoinableAlways(k) == TRUE

\* th.join() returns once the thread has finished.
Joinable(k) == threads[k].pc = "done"

Join ==
    /\ pc = "join"
    /\ joined < Len(threads)
    /\ Joinable(joined + 1)
    /\ joined' = joined + 1
    /\ UNCHANGED << data, size, pc, op, indStart, indEnd, threadsNum, sum, m,
                    thBlockSize, threads, result, prev >>

\* return sum
Return ==
    /\ pc = "join"
    /\ joined = Len(threads)
    /\ result' = sum
    /\ pc' = "done"
    /\ UNCHANGED << data, size, op, indStart, indEnd, threadsNum, sum, m,
                    thBlockSize, threads, joined, prev >>

\* ------------------------------------------------------------- specification
InitCall ==
    /\ pc = "idle"
    /\ op = "none"
    /\ indStart = 0
    /\ indEnd = 0
    /\ threadsNum = 0
    /\ sum = 0
    /\ m = 0
    /\ thBlockSize = 0
    /\ threads = << >>
    /\ joined = 0
    /\ result = 0
    /\ prev = NoPrev

\* A buffer of 1..MaxSize initialised elements, no call made yet.
Init ==
    /\ size \in 1 .. MaxSize
    /\ data \in Buffers(size)
    /\ InitCall

Next ==
    \/ InitByVal
    \/ SumRange
    \/ SumAll
    \/ SumRangeThreads
    \/ SumThreads
    \/ Spawn
    \/ ThreadStep
    \/ Join
    \/ Return

Spec == Init /\ [][Next]_vars

\* Every started thread and the calling thread keep being scheduled.  A thread
\* takes the mutex once and releases it, so weak fairness is enough for Lock.
Fairness ==
    /\ WF_vars(Spawn)
    /\ WF_vars(Join)
    /\ WF_vars(Return)
    /\ \A k \in 1 .. MaxThreads : WF_vars(k \in ThreadIds /\ ThreadStepOf(k))

FairSpec == Spec /\ Fairness

\* The scenario: a buffer of 8 elements filled with 1, summed by v.Sum(3).
InitScenario ==
    /\ size = 8
    /\ data = Filled(8, 1)
    /\ InitCall

RunScenario == DoParSum(0, SzSub(size, 1), 3)

NextScenario ==
    \/ RunScenario
    \/ Spawn
    \/ ThreadStep
    \/ Join
    \/ Return

SpecScenario == InitScenario /\ [][NextScenario]_vars

\* ------------------------------------------------------------- vocabulary of the claims
ParCall == op = "par"

\* The call in progress or just ended has a valid range and at least one thread.
ValidCall == ValidRange(indStart, indEnd) /\ threadsNum >= 1

FullRange == indStart = 0 /\ indEnd = size - 1

\* The indices thread k is handed: thIndStart..thIndEnd.
Assigned(k) == { j \in 0 .. SIZE_MAX : threads[k].indStart <= j /\ j <= threads[k].indEnd }

\* The threads that have added their local sum to the shared total.
Merged == { k \in ThreadIds : threads[k].merges >= 1 }

\* The threads inside the critical section of thread_sum.
InCritical == { k \in ThreadIds : threads[k].pc \in {"load", "store", "unlock"} }

\* The sum of the local sums of the threads 1..k that have merged.
RECURSIVE MergedTotal(_)
MergedTotal(k) ==
    IF k = 0 THEN 0
    ELSE TAdd(MergedTotal(k - 1), IF k \in Merged THEN threads[k].local_sum ELSE 0)

\* ------------------------------------------------------------- C1
\* C1: for an integer element type, a buffer of length >= 1 and threadsNum >= 1
\* (also threadsNum > size), the call Sum(threadsNum) does not fault and returns
\* the value of the sequential Sum() under every interleaving.
C1_ParallelEqualsSequential ==
    (ParCall /\ size >= 1 /\ threadsNum >= 1 /\ FullRange)
        => /\ pc # "crashed"
           /\ pc = "done" => result = SeqSum(data, size, 0, size - 1)

\* ------------------------------------------------------------- C2
\* C2: for a valid range and threadsNum >= 1, the blocks handed to the threads are
\* contiguous and pairwise disjoint and, once all are dispatched, every index of
\* [indStart, indEnd] belongs to exactly one block and no other index to any.
C2_PartitionCoversRangeOnce ==
    (ParCall /\ ValidCall)
        => /\ \A k \in ThreadIds : Assigned(k) \subseteq indStart .. indEnd
           /\ \A k \in ThreadIds : \A l \in ThreadIds :
                  k # l => Assigned(k) \cap Assigned(l) = {}
           /\ \A k \in ThreadIds :
                  threads[k].indStart =
                      IF k = 1 THEN indStart ELSE threads[k - 1].indEnd + 1
           /\ Len(threads) = threadsNum
                  => UNION { Assigned(k) : k \in ThreadIds } = indStart .. indEnd

\* ------------------------------------------------------------- C3
\* C3: when the parallel Sum has returned, every thread it was to spawn has been
\* spawned, has finished and has merged, and the returned value is the sum of all
\* the local sums.
C3_ReturnAfterAllWorkers ==
    (ParCall /\ pc = "done")
        => /\ Len(threads) = threadsNum
           /\ joined = threadsNum
           /\ \A k \in ThreadIds : threads[k].pc = "done" /\ threads[k].merges = 1
           /\ result = MergedTotal(Len(threads))
           /\ result = sum

C3_Witness ==
    /\ ParCall
    /\ pc = "done"
    /\ threadsNum = 2
    /\ \A k \in ThreadIds : threads[k].local_sum > 0

\* ------------------------------------------------------------- C4
\* C4: a thread reads or writes the shared total only while it holds the mutex,
\* at most one thread is inside the critical section, and the shared total is the
\* sum of the local sums of exactly the threads that have merged.
C4_MutexGuardsTotal ==
    /\ \A k \in InCritical : m = k
    /\ Cardinality(InCritical) <= 1
    /\ ParCall => sum = MergedTotal(Len(threads))

C4_Witness ==
    /\ ParCall
    /\ \E k \in ThreadIds : \E l \in ThreadIds :
           /\ threads[k].pc = "store"
           /\ threads[k].local_sum > 0
           /\ threads[l].pc = "lock"
           /\ threads[l].local_sum > 0

\* ------------------------------------------------------------- C5
\* C5: every spawned thread adds its local sum to the shared total exactly once:
\* never more than once, only after its loop is complete, and never zero times
\* in a call that has ended.
C5_MergedExactlyOnce ==
    /\ \A k \in ThreadIds :
           /\ threads[k].merges <= 1
           /\ threads[k].merges = 1
                  => /\ threads[k].pc \in {"unlock", "done"}
                     /\ threads[k].i > threads[k].indEnd
    /\ (ParCall /\ ValidCall /\ pc \in {"done", "crashed"})
           => \A k \in ThreadIds : threads[k].merges = 1

\* ------------------------------------------------------------- C6
\* C6: when the range is shorter than threadsNum (block size 0), every thread but
\* the last performs no iteration and has local sum 0, the last thread is handed
\* the whole range, and the total is the sum of the range; also for indStart = 0.
C6_DegenerateBlocksEmpty ==
    (ParCall /\ ValidCall /\ BlockSize(indStart, indEnd) < threadsNum)
        => /\ pc # "crashed"
           /\ \A k \in ThreadIds :
                  IF k < threadsNum
                  THEN /\ ~threads[k].iterated
                       /\ threads[k].local_sum = 0
                       /\ threads[k].i = threads[k].indStart
                  ELSE /\ threads[k].indStart = indStart
                       /\ threads[k].indEnd = indEnd
           /\ pc = "done" => result = SeqSum(data, size, indStart, indEnd)

\* ------------------------------------------------------------- C7
\* C7: a parallel Sum with threadsNum = 0 ends in an InvalidArgument error: the
\* division is not performed (no fault), no thread is spawned, no total returned.
C7_ZeroThreadsRejected ==
    (ParCall /\ threadsNum = 0)
        => /\ pc = "invalid_argument"
           /\ pc \notin {"crashed", "done"}
           /\ threads = << >>

\* ------------------------------------------------------------- C8
\* C8: under fair scheduling a parallel Sum with a valid range and
\* threadsNum >= 1 that has started eventually returns.
C8_CallReturns == (ParCall /\ ValidCall /\ pc = "dispatch") ~> (pc = "done")

\* ------------------------------------------------------------- C9
InScenario ==
    /\ size = 8
    /\ data = Filled(8, 1)
    /\ ParCall
    /\ threadsNum = 3
    /\ FullRange

\* The blocks, local sums and total of a scenario run.
ScenarioIs(starts, ends, sums, total) ==
    InScenario
        => /\ \A k \in ThreadIds :
                  /\ threads[k].indStart = starts[k]
                  /\ threads[k].indEnd = ends[k]
                  /\ threads[k].pc \notin {"loop"} => threads[k].local_sum = sums[k]
           /\ pc = "done" => result = total

\* C9 as stated: a buffer of 8 ones and 3 threads give the blocks [0,2], [3,5],
\* [6,7], the local sums 3, 3, 2 and the total 8.
C9_ScenarioAsStated == ScenarioIs(<<0, 3, 6>>, <<2, 5, 7>>, <<3, 3, 2>>, 8)

\* C9 amended: a buffer of 8 ones and 3 threads give the blocks [0,1], [2,3],
\* [4,7] (lengths 2, 2, 4), the local sums 2, 2, 4 and the total 8.
C9_ScenarioBlocks == ScenarioIs(<<0, 2, 4>>, <<1, 3, 7>>, <<2, 2, 4>>, 8)

C9_Witness ==
    /\ InScenario
    /\ pc = "done"
    /\ Len(threads) = 3
    /\ result = 8

\* ------------------------------------------------------------- C10
\* C10: a parallel Sum that returns after a returned call with the same
\* arguments on the unmodified buffer returns the same total, whatever the order
\* in which the threads took the mutex in either call.
C10_SameArgumentsSameTotal ==
    (ParCall /\ pc = "done" /\ prev # NoPrev) => result = prev

C10_Witness ==
    /\ ParCall
    /\ pc = "done"
    /\ prev # NoPrev
    /\ threadsNum = 2
    /\ \A k \in ThreadIds : threads[k].local_sum > 0
    /\ result = prev

\* ------------------------------------------------------------- calls with any range
\* The Sum operations take any two size_t indices: nothing in them checks the range.
\* The ranges drawn here include indStart > indEnd and indEnd = size.
SumRangeAny == \E s \in 0 .. size : \E e \in 0 .. size : DoSeqSum(s, e)

SumRangeThreadsAny ==
    \E s \in 0 .. size : \E e \in 0 .. size : \E n \in 0 .. MaxThreads :
        DoParSum(s, e, n)

NextAnyRange ==
    \/ InitByVal
    \/ SumRangeAny
    \/ SumRangeThreadsAny
    \/ Spawn
    \/ ThreadStep
    \/ Join
    \/ Return

SpecAnyRange == Init /\ [][NextAnyRange]_vars

\* ------------------------------------------------------------- C11
\* C11: a sequential or parallel Sum called with an invalid range (indStart >
\* indEnd, or indEnd >= size) ends in an InvalidArgument error: no element is
\* read, no thread is spawned, no total is returned and the process does not fault.
C11_InvalidRangeRejected ==
    (op \in {"seq", "par"} /\ ~ValidRange(indStart, indEnd))
        => /\ pc = "invalid_argument"
           /\ pc \notin {"done", "crashed"}
           /\ threads = << >>

\* ------------------------------------------------------------- construction
\* Before VectorRam v(size): no buffer yet and no call made.
InitUnconstructed ==
    /\ size = 0
    /\ data = << >>
    /\ pc = "unconstructed"
    /\ op = "none"
    /\ indStart = 0
    /\ indEnd = 0
    /\ threadsNum = 0
    /\ sum = 0
    /\ m = 0
    /\ thBlockSize = 0
    /\ threads = << >>
    /\ joined = 0
    /\ result = 0
    /\ prev = NoPrev

\* VectorRam(size_t size): size(size), data = new T[size]; the elements are not
\* initialised.  Any length is accepted, 0 included.
Construct ==
    /\ pc = "unconstructed"
    /\ \E n \in 0 .. MaxSize :
           /\ size' = n
           /\ data' = [j \in 0 .. (n - 1) |-> Indet]
    /\ pc' = "idle"
    /\ UNCHANGED << op, indStart, indEnd, threadsNum, sum, m, thBlockSize,
                    threads, joined, result, prev >>

\* The full-range operations on a buffer of any constructed length.
NextConstruct ==
    \/ Construct
    \/ InitByVal
    \/ SumAll
    \/ SumThreads
    \/ Spawn
    \/ ThreadStep
    \/ Join
    \/ Return

SpecConstruct == InitUnconstructed /\ [][NextConstruct]_vars

\* ------------------------------------------------------------- C12
\* C12: creating a buffer of length 0 fails, so every buffer that exists has
\* length > 0, and Sum() and Sum(threadsNum), which use size - 1 as the end
\* index, never run on an empty buffer.
C12_NoEmptyBuffer ==
    /\ pc # "unconstructed" => size > 0
    /\ op \in {"seq", "par"} => size > 0

\* ------------------------------------------------------------- two concurrent calls
\* Two threads of the program call Sum(indStart, indEnd, threadsNum) on the same
\* buffer at the same time.  Every call has its own frame: here pc, the
\* arguments, sum, m, thBlockSize, threads, joined and result are functions of
\* the call, and every thread_sum carries the references it was handed
\* (std::ref(sum), std::ref(m)).  The buffer has two elements, the range is
\* valid and threadsNum is 1 or 2 (threadsNum above the range length included).
Calls == 1 .. 2

\* No thread holds the mutex.
Free == << 0, 0 >>

\* A total shared by all calls (a static or member variable instead of a local).
TotalShared(c) == 1

\* std::ref(sum): the total in the frame of the call that spawns the thread.
TotalOf(c) == c

\* std::ref(m): the mutex in the frame of the call that spawns the thread.
MutexOf(c) == c

InitTwoCalls ==
    /\ size = 2
    /\ data \in Buffers(2)
    /\ pc = [c \in Calls |-> "idle"]
    /\ op = "par"
    /\ indStart = [c \in Calls |-> 0]
    /\ indEnd = [c \in Calls |-> 0]
    /\ threadsNum = [c \in Calls |-> 0]
    /\ sum = [c \in Calls |-> 0]
    /\ m = [c \in Calls |-> Free]
    /\ thBlockSize = [c \in Calls |-> 0]
    /\ threads = [c \in Calls |-> << >>]
    /\ joined = [c \in Calls |-> 0]
    /\ result = [c \in Calls |-> 0]
    /\ prev = NoPrev

\* The declarations of the parallel Sum in the frame of call c.
CallIn(c) ==
    /\ pc[c] = "idle"
    /\ \E s \in 0 .. (size - 1) : \E e \in s .. (size - 1) : \E n \in 1 .. 2 :
           /\ indStart' = [indStart EXCEPT ![c] = s]
           /\ indEnd' = [indEnd EXCEPT ![c] = e]
           /\ threadsNum' = [threadsNum EXCEPT ![c] = n]
           /\ thBlockSize' = [thBlockSize EXCEPT ![c] = BlockSize(s, e) \div n]
    /\ m' = [m EXCEPT ![c] = Free]
    /\ sum' = [sum EXCEPT ![c] = SumInit]
    /\ pc' = [pc EXCEPT ![c] = "dispatch"]
    /\ UNCHANGED << data, size, op, threads, joined, result, prev >>

\* One iteration of the dispatch loop of call c.
SpawnIn(c) ==
    /\ pc[c] = "dispatch"
    /\ Len(threads[c]) < threadsNum[c]
    /\ LET i == Len(threads[c])
           t == [sumRef |-> TotalOf(c), mRef |-> MutexOf(c)]
                    @@ NewThread(BlockStart(indStart[c], thBlockSize[c], i),
                                 BlockEnd(indStart[c], indEnd[c], thBlockSize[c],
                                          threadsNum[c], i))
       IN  threads' = [threads EXCEPT ![c] = Append(threads[c], t)]
    /\ pc' = [pc EXCEPT ![c] = IF Len(threads[c]) + 1 = threadsNum[c]
                                THEN "join" ELSE "dispatch"]
    /\ UNCHANGED << data, size, op, indStart, indEnd, threadsNum, sum, m,
                    thBlockSize, joined, result, prev >>

RunningIn(c) == pc[c] \in {"dispatch", "join"}

SetThreadIn(c, k, t) == threads' = [threads EXCEPT ![c][k] = t]

\* The loop of thread k of call c: one iteration, or the exit.
LoopIn(c, k) ==
    /\ RunningIn(c)
    /\ threads[c][k].pc = "loop"
    /\ LET t == threads[c][k]
           next == [t EXCEPT !.i = SzAdd(t.i, 1), !.iterated = TRUE]
       IN  IF t.i <= t.indEnd
           THEN \/ /\ InBounds(t.i)
                   /\ SetThreadIn(c, k, [next EXCEPT !.local_sum =
                                                       TAdd(t.local_sum, data[t.i])])
                   /\ pc' = pc
                \/ /\ ~InBounds(t.i)
                   /\ SetThreadIn(c, k, [next EXCEPT !.local_sum = Indet])
                   /\ pc' = pc
                \/ /\ ~InBounds(t.i)
                   /\ threads' = threads
                   /\ pc' = [d \in Calls |-> "crashed"]
           ELSE /\ SetThreadIn(c, k, [t EXCEPT !.pc = "lock"])
                /\ pc' = pc
    /\ UNCHANGED << data, size, op, indStart, indEnd, threadsNum, sum, m,
                    thBlockSize, joined, result, prev >>

\* The critical section of thread k of call c, on the total and the mutex it
\* was handed: lock, read the total, write it, unlock.
MergeIn(c, k) ==
    /\ RunningIn(c)
    /\ LET t == threads[c][k]
       IN  \/ /\ t.pc = "lock"
              /\ m[t.mRef] = Free
              /\ m' = [m EXCEPT ![t.mRef] = << c, k >>]
              /\ SetThreadIn(c, k, [t EXCEPT !.pc = "load"])
              /\ sum' = sum
           \/ /\ t.pc = "load"
              /\ SetThreadIn(c, k, [t EXCEPT !.pc = "store", !.tmp = sum[t.sumRef]])
              /\ UNCHANGED << sum, m >>
           \/ /\ t.pc = "store"
              /\ sum' = [sum EXCEPT ![t.sumRef] = TAdd(t.tmp, t.local_sum)]
              /\ SetThreadIn(c, k, [t EXCEPT !.pc = "unlock", !.tmp = 0,
                                             !.merges = t.merges + 1])
              /\ m' = m
           \/ /\ t.pc = "unlock"
              /\ m' = [m EXCEPT ![t.mRef] = IF @ = << c, k >> THEN Free ELSE @]
              /\ SetThreadIn(c, k, [t EXCEPT !.pc = "done"])
              /\ sum' = sum
    /\ UNCHANGED << data, size, pc, op, indStart, indEnd, threadsNum,
                    thBlockSize, joined, result, prev >>

ThreadStepIn == \E c \in Calls : \E k \in 1 .. Len(threads[c]) : LoopIn(c, k) \/ MergeIn(c, k)

\* th.join() in the join loop of call c.
JoinIn(c) ==
    /\ pc[c] = "join"
    /\ joined[c] < Len(threads[c])
    /\ threads[c][joined[c] + 1].pc = "done"
    /\ joined' = [joined EXCEPT ![c] = @ + 1]
    /\ UNCHANGED << data, size, pc, op, indStart, indEnd, threadsNum, sum, m,
                    thBlockSize, threads, result, prev >>

\* return sum in call c.
ReturnIn(c) ==
    /\ pc[c] = "join"
    /\ joined[c] = Len(threads[c])
    /\ result' = [result EXCEPT ![c] = sum[c]]
    /\ pc' = [pc EXCEPT ![c] = "done"]
    /\ UNCHANGED << data, size, op, indStart, indEnd, threadsNum, sum, m,
                    thBlockSize, threads, joined, prev >>

CallerStepIn == \E c \in Calls : CallIn(c) \/ SpawnIn(c) \/ JoinIn(c) \/ ReturnIn(c)

NextTwoCalls ==
    \/ CallerStepIn
    \/ ThreadStepIn

SpecTwoCalls == InitTwoCalls /\ [][NextTwoCalls]_vars

\* The sum of the local sums of the threads 1..k of call c that have merged.
RECURSIVE MergedTotalIn(_, _)
MergedTotalIn(c, k) ==
    IF k = 0 THEN 0
    ELSE TAdd(MergedTotalIn(c, k - 1),
              IF threads[c][k].merges >= 1 THEN threads[c][k].local_sum ELSE 0)

\* ------------------------------------------------------------- C13
\* C13: two parallel Sum calls running at the same time on one buffer do not
\* interfere: every thread adds to the total, and takes the mutex, of its own
\* call only, the total of a call is the sum of the local sums of its own merged
\* threads, and a call that returns returns what it returns when run alone, the
\* sum of its range.
C13_CallsIndependent ==
    \A c \in Calls :
        /\ \A k \in 1 .. Len(threads[c]) :
               /\ threads[c][k].sumRef = c
               /\ threads[c][k].mRef = c
        /\ m[c] # Free => m[c][1] = c
        /\ pc[c] # "idle" => sum[c] = MergedTotalIn(c, Len(threads[c]))
        /\ pc[c] = "done"
               => result[c] = SeqSum(data, size, indStart[c], indEnd[c])

\* Both calls are in progress, each with a thread that has merged a non-zero
\* local sum while a thread of the other call is in its critical section.
C13_Witness ==
    /\ \A c \in Calls : pc[c] \in {"dispatch", "join"}
    /\ \E k \in 1 .. Len(threads[1]) : \E l \in 1 .. Len(threads[2]) :
           /\ threads[1][k].pc = "store"
           /\ threads[1][k].local_sum > 0
           /\ threads[2][l].pc = "store"
           /\ threads[2][l].local_sum > 0

\* ------------------------------------------------------------- C14
\* C14: no step of a sequential or parallel Sum, of the caller or of a thread,
\* writes to data or to size; a step of a thread changes nothing but the state
\* of the threads (the local sums), the shared total and its mutex, unless it
\* faults.
C14_BufferUnchanged ==
    [][ /\ op' \in {"seq", "par"} => (data' = data /\ size' = size)
        /\ (ThreadStep /\ pc' # "crashed")
               => UNCHANGED << data, size, pc, op, indStart, indEnd, threadsNum,
                               thBlockSize, joined, result, prev >> ]_vars

C14_Witness ==
    /\ ParCall
    /\ pc = "done"
    /\ size >= 2
    /\ data = Ramp(size)
    /\ \A k \in ThreadIds : threads[k].iterated

\* ------------------------------------------------------------- C15
\* C15: when a spawned thread terminates abnormally before it has merged, the
\* parallel Sum ends in a failure that reaches its caller after the threads
\* have been joined, and returns no total: the call does not end in any other
\* way than by returning or by that failure.
C15_WorkerFailurePropagated ==
    (ParCall /\ threadsNum >= 1 /\ pc \notin {"dispatch", "join", "done"})
        => /\ pc = "failed"
           /\ joined = Len(threads)

\* ------------------------------------------------------------- C16
\* C16: a thread holds the mutex exactly while it performs its one addition to
\* the shared total: never in its loop or while it waits, never after it has
\* finished; and a thread that is not at the lock can always take its next
\* step, whatever the other threads do.
C16_MutexOnlyForMerge ==
    /\ \A k \in ThreadIds :
           /\ m = k <=> threads[k].pc \in {"load", "store", "unlock"}
           /\ threads[k].pc \in {"load", "store"} => threads[k].merges = 0
    /\ m # 0 => m \in ThreadIds
    /\ Running
           => \A k \in ThreadIds :
                  threads[k].pc \in {"loop", "load", "store", "unlock"}
                      => ENABLED ThreadStepOf(k)

C16_Witness ==
    \E k \in ThreadIds : \E l \in ThreadIds :
        /\ threads[k].pc = "loop"
        /\ threads[k].iterated
        /\ threads[k].i <= threads[k].indEnd
        /\ m = l
        /\ threads[l].pc = "store"

\* ------------------------------------------------------------- C17
\* C17: with len = indEnd - indStart + 1 and b = floor(len / threadsNum), thread
\* i < threadsNum - 1 is handed [indStart + i*b, indStart + (i+1)*b - 1] and the
\* last thread [indStart + (threadsNum-1)*b, indEnd], the indices computed in
\* size_t arithmetic being equal to these integers.
C17_BlocksAsSpecified ==
    (ParCall /\ ValidCall)
        => \A k \in ThreadIds :
               LET i == k - 1
                   b == (indEnd - indStart + 1) \div threadsNum
               IN  /\ threads[k].indStart = indStart + i * b
                   /\ threads[k].indEnd =
                          IF i = threadsNum - 1 THEN indEnd
                          ELSE indStart + (i + 1) * b - 1

\* ------------------------------------------------------------- C18
\* C18 as stated: the call goes through Planning, Dispatching, WorkersRunning,
\* Merging, Joined in that order: while the caller is still dispatching, no
\* thread has begun to merge its local sum into the shared total.
C18_NoMergeWhileDispatching ==
    (ParCall /\ pc = "dispatch")
        => \A k \in ThreadIds :
               /\ threads[k].pc \in {"loop", "lock"}
               /\ threads[k].merges = 0

\* The caller's position moves forward only: dispatch, then join, then done.
CallerForward ==
    /\ pc = "dispatch" => pc' \in {"dispatch", "join", "crashed"}
    /\ pc = "join" => pc' \in {"join", "done", "crashed"}
    /\ pc = "crashed" => pc' = "crashed"
    /\ (pc \in {"dispatch", "join"} /\ pc' \in {"dispatch", "join", "done"})
           => /\ Len(threads') >= Len(threads)
              /\ joined' >= joined
              /\ thBlockSize' = thBlockSize
              /\ \A k \in ThreadIds :
                     /\ threads'[k].indStart = threads[k].indStart
                     /\ threads'[k].indEnd = threads[k].indEnd
                     /\ threads'[k].merges >= threads[k].merges

\* C18 amended: the caller goes through planning (the declarations), dispatching,
\* joining and return in that order without revisiting one; it dispatches until
\* all threadsNum threads are launched, the block of a thread is fixed when it
\* is launched, threads run and may merge while the caller is still dispatching,
\* and every merge precedes the return.
C18_CallerPhases ==
    /\ [](ParCall
              => /\ pc = "dispatch" => Len(threads) < threadsNum
                 /\ pc \in {"join", "done"} => Len(threads) = threadsNum
                 /\ joined <= Len(threads)
                 /\ \A k \in 1 .. joined : threads[k].pc = "done"
                 /\ pc = "done" => \A k \in ThreadIds : threads[k].merges = 1)
    /\ [][CallerForward]_vars

\* A thread has merged while the caller is still dispatching.
C18_Witness ==
    /\ ParCall
    /\ pc = "dispatch"
    /\ \E k \in ThreadIds : threads[k].merges = 1 /\ threads[k].local_sum > 0

\* ------------------------------------------------------------- C19
\* C19: for a valid range and threadsNum >= 1, every index at which a thread
\* reads data[i] (the index of its next loop iteration) lies in
\* [indStart, indEnd], also when the block size is 0.
C19_ReadsInsideRange ==
    (ParCall /\ ValidCall)
        => \A k \in ThreadIds :
               (threads[k].pc = "loop" /\ threads[k].i <= threads[k].indEnd)
                   => (indStart <= threads[k].i /\ threads[k].i <= indEnd)

\* ------------------------------------------------------------- C20
\* main's half range: Sum(0, size / 2) and Sum(0, size / 2, Nthreads).
HalfEnd == size \div 2

\* C20: on a buffer filled with v, the half-range sums Sum(0, size/2) and
\* Sum(0, size/2, Nthreads) return (size/2) * v, the value main prints as the one
\* the half sum must be equal to.
C20_HalfSumAsPrinted ==
    \A v \in 1 .. MaxVal :
        ( /\ op \in {"seq", "par"}
          /\ pc = "done"
          /\ op = "par" => threadsNum >= 1
          /\ indStart = 0
          /\ indEnd = HalfEnd
          /\ data = Filled(size, v) )
            => result = ((size \div 2) * v) % TMod

====
